---- MODULE Spec2Model ----
(***************************************************************************)
(* Model of src/src/App.tsx: the smoothed streaming scheduler              *)
(* (useSmartStream) and the markdown auto-repair engine (autoFixMarkdown). *)
(* Texts are sequences of one-character strings.                           *)
(***************************************************************************)
EXTENDS Integers, Sequences, FiniteSets, TLC

\* ------------------------------------------------------------------ bounds
\* Longest target text the editor holds in the scheduler model.
MaxLen == 3
\* Timer handles setInterval can hand out (handles are opaque; the lowest
\* free one is taken).
MaxTimers == 2
\* Most pieces (characters or markers) a text handed to the repair engine is
\* made of.
MaxTokens == 4

\* ------------------------------------------------------- program constants
\* useState({ min: 1, max: 3 })
InitialMin == 1
InitialMax == 3
\* <input type="range" min="1" max="5"> for speedConfig.min; the hook itself
\* takes any number, and 0 is the misconfigured minimum Math.max(1, speed)
\* guards against, so the hook's minSpeed ranges over 0..SliderMinHi.
SliderMinHi == 5
\* <input type="range" min="2" max="10"> for speedConfig.max
SliderMaxLo == 2
SliderMaxHi == 10

\* ------------------------------------------------------------------- texts
Alphabet == {"a", "b"}

RECURSIVE SeqsUpTo(_, _)
SeqsUpTo(S, n) ==
  IF n = 0 THEN {<<>>}
  ELSE LET shorter == SeqsUpTo(S, n - 1)
       IN  shorter \cup {Append(s, x) : s \in shorter, x \in S}

\* The target texts the textarea can hold, up to the bound.
Texts == SeqsUpTo(Alphabet, MaxLen)

MinSpeeds == 0..SliderMinHi
MaxSpeeds == SliderMaxLo..SliderMaxHi

Min(a, b) == IF a < b THEN a ELSE b
Max(a, b) == IF a > b THEN a ELSE b

\* String.prototype.slice(0, n) for 0 <= n
Slice(s, n) == SubSeq(s, 1, Min(n, Len(s)))

\* ------------------------------------------------- the auto-repair engine
NL == "\n"
\* The backtick character (U+0060), which a TLA+ string literal cannot hold:
\* the apostrophe stands for it, and no text of the model holds an apostrophe.
Backtick == "'"
Bang3 == <<"!", "!", "!">>
Fence == <<Backtick, Backtick, Backtick>>
MathMarker == <<"$", "$">>
BoldMarker == <<"*", "*">>
SpoilerOpen == <<":", "s", "p", "o", "i", "l", "e", "r", "[">>

\* What the texts handed to the repair engine are built from: single
\* characters and the multi-character markers, up to MaxTokens pieces.
Tokens == {<<"a">>, <<" ">>, <<NL>>, <<Backtick>>, Fence, <<"*">>, BoldMarker,
           <<"$">>, Bang3, <<"[">>, <<"]">>, <<"(">>, <<")">>}

\* The text a sequence of pieces spells.
RECURSIVE Flatten(_, _)
Flatten(pieces, n) ==
  IF n = 0 THEN <<>> ELSE Flatten(pieces, n - 1) \o pieces[n]

\* s[i..] (1-based), the empty text past the end
From(s, i) == SubSeq(s, i, Len(s))

\* pat occurs in s at position i
MatchAt(s, pat, i) ==
  /\ i >= 1
  /\ i + Len(pat) - 1 <= Len(s)
  /\ SubSeq(s, i, i + Len(pat) - 1) = pat

\* (s.match(/pat/g) || []).length for a literal pat: matches are taken left to
\* right and do not overlap.
RECURSIVE CountMatchesFrom(_, _, _)
CountMatchesFrom(s, pat, i) ==
  IF i + Len(pat) - 1 > Len(s) THEN 0
  ELSE IF MatchAt(s, pat, i) THEN 1 + CountMatchesFrom(s, pat, i + Len(pat))
  ELSE CountMatchesFrom(s, pat, i + 1)

CountMatches(s, pat) == CountMatchesFrom(s, pat, 1)

\* /!!!(.*?)!!!/ after its opening !!! matched: the lazy group grows one
\* character at a time from position j until !!! follows; the dot matches no
\* line break, so the attempt fails at one (0: no match from this opener).
RECURSIVE LazyClose(_, _)
LazyClose(s, j) ==
  IF MatchAt(s, Bang3, j) THEN j
  ELSE IF j > Len(s) \/ s[j] = NL THEN 0
  ELSE LazyClose(s, j + 1)

\* text.replace(/!!!(.*?)!!!/g, ':spoiler[$1]'): the regex is tried at each
\* position from the left; after a match the scan resumes behind it.
RECURSIVE ReplaceFrom(_, _)
ReplaceFrom(s, i) ==
  IF i > Len(s) THEN <<>>
  ELSE LET close == IF MatchAt(s, Bang3, i) THEN LazyClose(s, i + 3) ELSE 0
       IN  IF close # 0
           THEN SpoilerOpen \o SubSeq(s, i + 3, close - 1) \o <<"]">>
                  \o ReplaceFrom(s, close + 3)
           ELSE <<s[i]>> \o ReplaceFrom(s, i + 1)

DirectiveNormalize(text) == ReplaceFrom(text, 1)

\* lines[lines.length - 1] || '' for lines = processedText.split('\n'): the
\* text after the last line break.
RECURSIVE LastLine(_)
LastLine(s) ==
  IF \E i \in 1..Len(s) : s[i] = NL
  THEN LastLine(From(s, (CHOOSE i \in 1..Len(s) : s[i] = NL) + 1))
  ELSE s

\* An inline-code stage that counts the backticks of the whole text.
InlineCodeLineWholeText(s) == s

\* The line the inline-code stage counts backticks in.
InlineCodeLine(s) == LastLine(s)

\* (lastLine.match(/`/g) || []).length
CountChar(s, c) == Cardinality({i \in 1..Len(s) : s[i] = c})

\* A \s that takes a line break for no whitespace.
IsSpaceBlankOnly(c) == c = " "

\* \s, for the characters of the model's texts
IsSpace(c) == c \in {" ", NL}

\* String.prototype.trimEnd()
RECURSIVE TrimEnd(_)
TrimEnd(s) ==
  IF Len(s) > 0 /\ IsSpace(s[Len(s)]) THEN TrimEnd(SubSeq(s, 1, Len(s) - 1))
  ELSE s

\* /\*\*[^\*]*\s*$/.test(s): some ** is followed by no * up to the end.
BoldTest(s) ==
  \E i \in 1..Len(s) :
    /\ MatchAt(s, BoldMarker, i)
    /\ \A k \in (i + 2)..Len(s) : s[k] # "*"

\* A link test that asks for a non-empty bracket text.
LinkTestNonEmptyLabel(s) ==
  \E i \in 1..Len(s) :
    /\ s[i] = "["
    /\ \E j \in (i + 2)..Len(s) :
         /\ \A k \in (i + 1)..(j - 1) : s[k] # "]"
         /\ MatchAt(s, <<"]", "(">>, j)
         /\ \A k \in (j + 2)..Len(s) : s[k] # ")"

\* /(\!\[|\[)[^\]]*\]\([^\)]*$/.test(s): a [ (after an optional !), no ] up to
\* a ]( and no ) from there to the end.
LinkTest(s) ==
  \E i \in 1..Len(s) :
    /\ s[i] = "["
    /\ \E j \in (i + 1)..Len(s) :
         /\ \A k \in (i + 1)..(j - 1) : s[k] # "]"
         /\ MatchAt(s, <<"]", "(">>, j)
         /\ \A k \in (j + 2)..Len(s) : s[k] # ")"

\* The repair stages after directive normalization, every applicable stage
\* applied in turn instead of the first one only.
RepairStagesCumulative(processedText) ==
  LET t1 == IF CountMatches(processedText, Fence) % 2 # 0
            THEN processedText \o <<NL>> \o Fence ELSE processedText
      t2 == IF CountMatches(t1, MathMarker) % 2 # 0
            THEN t1 \o MathMarker ELSE t1
      t3 == IF CountChar(InlineCodeLine(t2), Backtick) % 2 # 0
            THEN t2 \o <<Backtick>> ELSE t2
      t4 == IF BoldTest(t3) THEN TrimEnd(t3) \o BoldMarker ELSE t3
  IN  IF LinkTest(t4) THEN t4 \o <<")">> ELSE t4

\* autoFixMarkdown after `if (!enabled) return processedText`: the first
\* applicable stage returns.
RepairStages(processedText) ==
  IF CountMatches(processedText, Fence) % 2 # 0
  THEN processedText \o <<NL>> \o Fence
  ELSE IF CountMatches(processedText, MathMarker) % 2 # 0
  THEN processedText \o MathMarker
  ELSE IF CountChar(InlineCodeLine(processedText), Backtick) % 2 # 0
  THEN processedText \o <<Backtick>>
  ELSE IF BoldTest(processedText)
  THEN TrimEnd(processedText) \o BoldMarker
  ELSE IF LinkTest(processedText)
  THEN processedText \o <<")">>
  ELSE processedText

\* autoFixMarkdown running the repair stages whatever `enabled` says.
autoFixMarkdownAlways(text, enabled) == RepairStages(DirectiveNormalize(text))

autoFixMarkdown(text, enabled) ==
  LET processedText == DirectiveNormalize(text)
  IN  IF ~enabled THEN processedText ELSE RepairStages(processedText)

VARIABLES
  fullText,       \* prop: the target text T (App's input state)
  isStreaming,    \* prop: the streaming flag
  minSpeed,       \* prop: speedConfig.min
  maxSpeed,       \* prop: speedConfig.max
  displayBuffer,  \* useState(''): the display buffer D
  fullTextRef,    \* useRef(fullText)
  indexRef,       \* useRef(0): the cursor c
  timers,         \* active setInterval timers, each with the speeds its callback closed over
  mounted,        \* the owning component is alive
  text,           \* autoFixMarkdown's parameter text
  enabled,        \* autoFixMarkdown's parameter enabled
  returned,       \* autoFixMarkdown has returned
  result          \* what autoFixMarkdown returned

schedVars == <<fullText, isStreaming, minSpeed, maxSpeed, displayBuffer,
               fullTextRef, indexRef, timers, mounted>>
repairVars == <<text, enabled, returned, result>>
vars == <<schedVars, repairVars>>

\* The hook's mutable cells as one record, so each effect is a function of it.
Hook == [fullTextRef |-> fullTextRef, indexRef |-> indexRef,
         displayBuffer |-> displayBuffer]

\* ------------------------------------------------------------ the effects
\* useEffect(..., [fullText]) with the clamp left out.
TargetChangedEffectNoClamp(h, target) == [h EXCEPT !.fullTextRef = target]

\* A target-changed effect that clamps the cursor and publishes nothing.
TargetChangedEffectClampOnly(h, target) ==
  [h EXCEPT !.fullTextRef = target,
            !.indexRef = IF Len(target) < h.indexRef THEN Len(target)
                         ELSE h.indexRef]

\* useEffect(() => { fullTextRef.current = fullText; if (fullText.length <
\* indexRef.current) {...} }, [fullText])
TargetChangedEffect(h, target) ==
  LET h1 == [h EXCEPT !.fullTextRef = target]
  IN  IF Len(target) < h.indexRef
      THEN [h1 EXCEPT !.indexRef = Len(target), !.displayBuffer = target]
      ELSE h1

\* The streaming-disabled effect reading a stale buffer: it reveals what is
\* already displayed instead of the target.
StreamingDisabledEffectStale(h, streaming) ==
  IF ~streaming
  THEN [h EXCEPT !.indexRef = Len(h.fullTextRef)]
  ELSE h

\* A streaming effect that restarts the stream from position 0 when
\* streaming is enabled.
StreamingDisabledEffectRestart(h, streaming) ==
  IF ~streaming
  THEN [h EXCEPT !.indexRef = Len(h.fullTextRef),
                 !.displayBuffer = h.fullTextRef]
  ELSE [h EXCEPT !.indexRef = 0, !.displayBuffer = <<>>]

\* useEffect(() => { if (!isStreaming) {...} }, [isStreaming, fullText])
StreamingDisabledEffect(h, streaming) ==
  IF ~streaming
  THEN [h EXCEPT !.indexRef = Len(h.fullTextRef),
                 !.displayBuffer = h.fullTextRef]
  ELSE h

\* Math.floor(Math.random() * (maxSpeed - minSpeed + 1)) + minSpeed, for
\* Math.random() in [0, 1): with n = maxSpeed - minSpeed + 1 the floor ranges
\* over 0..n-1 when n > 0 and over n..0 when n <= 0 (an inverted range).
SpeedDraws(lo, hi) ==
  LET n == hi - lo + 1
  IN  IF n > 0 THEN lo..hi ELSE (lo + n)..lo

\* The drawn speed taken as the step, without the floor of 1.
CharsToAddRaw(speed) == speed

\* Math.max(1, speed)
CharsToAdd(speed) == Max(1, speed)

\* The next cursor without the clamp to the target's length.
NextCursorUnclamped(currentCursor, charsToAdd, targetLen) ==
  currentCursor + charsToAdd

\* Math.min(currentCursor + charsToAdd, currentTarget.length)
NextCursor(currentCursor, charsToAdd, targetLen) ==
  Min(currentCursor + charsToAdd, targetLen)

\* The setInterval callback, for one drawn speed. setDisplayBuffer on an
\* unmounted component is ignored by React; the ref is still written.
TickCallback(h, speed, alive) ==
  LET currentTarget == h.fullTextRef
      currentCursor == h.indexRef
  IN  IF currentCursor < Len(currentTarget)
      THEN LET nextCursor == NextCursor(currentCursor, CharsToAdd(speed),
                                        Len(currentTarget))
           IN  [h EXCEPT !.indexRef = nextCursor,
                         !.displayBuffer =
                            IF alive THEN Slice(currentTarget, nextCursor)
                            ELSE h.displayBuffer]
      ELSE h

\* ------------------------------------------------------------- the timers
\* setInterval(callback, 50): a new active timer whose callback closed over
\* the render's minSpeed and maxSpeed.
FreeHandle(ts) == CHOOSE i \in 1..MaxTimers :
                    /\ i \notin {t.id : t \in ts}
                    /\ \A j \in 1..MaxTimers : j < i => j \in {t.id : t \in ts}

SetInterval(ts, lo, hi) ==
  ts \cup {[id |-> FreeHandle(ts), minSpeed |-> lo, maxSpeed |-> hi]}

\* A cleanup that forgets to clear its timer.
ClearIntervalLeak(ts, id) == ts

\* clearInterval(timer)
ClearInterval(ts, id) == {t \in ts : t.id # id}

\* The handle the tick effect's last run holds: the one its cleanup clears.
\* The effect re-runs only when [minSpeed, maxSpeed] changes, so the handle
\* is the timer that closed over the current speeds.
EffectTimerIds(ts, lo, hi) ==
  {t.id : t \in {u \in ts : u.minSpeed = lo /\ u.maxSpeed = hi}}

\* The tick effect re-run for new speeds: cleanup of the previous run, then
\* the effect body.
RearmTimers(ts, oldLo, oldHi, lo, hi) ==
  LET held == EffectTimerIds(ts, oldLo, oldHi)
      cleared == IF held = {} THEN ts
                 ELSE ClearInterval(ts, CHOOSE i \in held : TRUE)
  IN  SetInterval(cleared, lo, hi)

\* ------------------------------------------------------------------- Init
\* The state after the first render's effects have run, in declaration order.
MountedHook(target, streaming) ==
  StreamingDisabledEffect(
    TargetChangedEffect([fullTextRef |-> target, indexRef |-> 0,
                         displayBuffer |-> <<>>], target),
    streaming)

\* The repair engine is not being called.
NoCall ==
  /\ text = <<>>
  /\ enabled = TRUE
  /\ returned = FALSE
  /\ result = <<>>

Init ==
  /\ fullText \in Texts
  /\ isStreaming \in BOOLEAN
  /\ minSpeed = InitialMin
  /\ maxSpeed = InitialMax
  /\ LET h == MountedHook(fullText, isStreaming)
     IN  /\ fullTextRef = h.fullTextRef
         /\ indexRef = h.indexRef
         /\ displayBuffer = h.displayBuffer
  /\ timers = SetInterval({}, InitialMin, InitialMax)
  /\ mounted = TRUE
  /\ NoCall

SetHook(h) ==
  /\ fullTextRef' = h.fullTextRef
  /\ indexRef' = h.indexRef
  /\ displayBuffer' = h.displayBuffer

\* ---------------------------------------------------------------- actions
\* One firing of an active timer's callback.
Tick ==
  \E t \in timers :
    \E speed \in SpeedDraws(t.minSpeed, t.maxSpeed) :
      /\ SetHook(TickCallback(Hook, speed, mounted))
      /\ UNCHANGED <<fullText, isStreaming, minSpeed, maxSpeed, timers, mounted>>
      /\ UNCHANGED repairVars

\* setInput(e.target.value): a re-render with a new fullText runs the target-changed
\* effect and then the streaming-disabled effect (both depend on fullText).
\* Setting the same value re-renders nothing.
SetInput ==
  \E value \in Texts :
    /\ mounted
    /\ value # fullText
    /\ fullText' = value
    /\ SetHook(StreamingDisabledEffect(TargetChangedEffect(Hook, value),
                                        isStreaming))
    /\ UNCHANGED <<isStreaming, minSpeed, maxSpeed, timers, mounted>>
    /\ UNCHANGED repairVars

\* setIsStreaming(e.target.checked): the checkbox flips the flag; the
\* streaming-disabled effect runs.
SetIsStreaming ==
  /\ mounted
  /\ isStreaming' = ~isStreaming
  /\ SetHook(StreamingDisabledEffect(Hook, ~isStreaming))
  /\ UNCHANGED <<fullText, minSpeed, maxSpeed, timers, mounted>>
  /\ UNCHANGED repairVars

\* A speed change that also restarts the stream from position 0.
SetSpeedConfigRestart ==
  \E lo \in MinSpeeds, hi \in MaxSpeeds :
    /\ mounted
    /\ (lo = minSpeed) # (hi = maxSpeed)
    /\ minSpeed' = lo
    /\ maxSpeed' = hi
    /\ timers' = RearmTimers(timers, minSpeed, maxSpeed, lo, hi)
    /\ SetHook([Hook EXCEPT !.indexRef = 0, !.displayBuffer = <<>>])
    /\ UNCHANGED <<fullText, isStreaming, mounted>>
    /\ UNCHANGED repairVars

\* setSpeedConfig({...speedConfig, min}) / ({...speedConfig, max}): the tick
\* effect re-runs when a dependency changed.
SetSpeedConfig ==
  \E lo \in MinSpeeds, hi \in MaxSpeeds :
    /\ mounted
    /\ (lo = minSpeed) # (hi = maxSpeed)
    /\ minSpeed' = lo
    /\ maxSpeed' = hi
    /\ timers' = RearmTimers(timers, minSpeed, maxSpeed, lo, hi)
    /\ UNCHANGED <<fullText, isStreaming, displayBuffer, fullTextRef,
                   indexRef, mounted>>
    /\ UNCHANGED repairVars

\* An unmount whose cleanup is never run.
UnmountTimersKeep(ts, lo, hi) == ts

\* The tick effect's cleanup at unmount.
UnmountTimers(ts, lo, hi) ==
  LET held == EffectTimerIds(ts, lo, hi)
  IN  IF held = {} THEN ts ELSE ClearInterval(ts, CHOOSE i \in held : TRUE)

\* The owning session ends: the component unmounts and the cleanup runs.
Unmount ==
  /\ mounted
  /\ mounted' = FALSE
  /\ timers' = UnmountTimers(timers, minSpeed, maxSpeed)
  /\ UNCHANGED <<fullText, isStreaming, minSpeed, maxSpeed, displayBuffer,
                 fullTextRef, indexRef>>
  /\ UNCHANGED repairVars

Next == Tick \/ SetInput \/ SetIsStreaming \/ SetSpeedConfig \/ Unmount

Spec == Init /\ [][Next]_vars

\* The states the scheduler can be in after any finite sequence of events:
\* exactly the states Spec reaches (AfterEdits is an invariant of Spec, and
\* Spec reaches as many distinct states as AfterEdits describes). While
\* streaming, the buffer is whatever text of the cursor's length an earlier
\* target left behind.
AfterEdits ==
  /\ fullText \in Texts
  /\ isStreaming \in BOOLEAN
  /\ minSpeed \in MinSpeeds
  /\ maxSpeed \in MaxSpeeds
  /\ mounted \in BOOLEAN
  /\ fullTextRef = fullText
  /\ indexRef \in 0..Len(fullText)
  /\ displayBuffer \in {d \in Texts : Len(d) = indexRef}
  /\ ~isStreaming => (indexRef = Len(fullText) /\ displayBuffer = fullText)
  /\ timers = IF mounted THEN SetInterval({}, minSpeed, maxSpeed) ELSE {}
  /\ NoCall

\* From any such state the target text stops changing: every event but a
\* replacement of the target can still happen.
StableNext == Tick \/ SetIsStreaming \/ SetSpeedConfig \/ Unmount

\* setInterval fires its callback every 50 ms for as long as the timer is
\* active, so a tick that can change the state is eventually taken.
StableSpec == AfterEdits /\ [][StableNext]_vars /\ WF_vars(Tick)

\* ------------------------------------------------- the repair engine's runs
\* A call of autoFixMarkdown about to be made on some text; the scheduler
\* plays no part (the engine is a pure function of its two parameters).
RepairInit ==
  /\ \E n \in 0..MaxTokens :
       \E pieces \in [1..n -> Tokens] : text = Flatten(pieces, n)
  /\ enabled \in BOOLEAN
  /\ returned = FALSE
  /\ result = <<>>
  /\ fullText = <<>>
  /\ isStreaming = TRUE
  /\ minSpeed = InitialMin
  /\ maxSpeed = InitialMax
  /\ fullTextRef = <<>>
  /\ indexRef = 0
  /\ displayBuffer = <<>>
  /\ timers = SetInterval({}, InitialMin, InitialMax)
  /\ mounted = TRUE

\* The call returns.
CallAutoFix ==
  /\ ~returned
  /\ result' = autoFixMarkdown(text, enabled)
  /\ returned' = TRUE
  /\ UNCHANGED <<text, enabled, schedVars>>

RepairSpec == RepairInit /\ [][CallAutoFix]_vars

\* ======================================================= scheduler claims

\* C1: in every reachable state the cursor is a valid prefix index of the
\* current target text: 0 <= c <= length(T).
C1_CursorInRange == 0 <= indexRef /\ indexRef <= Len(fullText)

\* C1 witness: streaming, with the cursor at the very end of a non-empty target
\* shorter than the bound: the boundary value c = length(T), which a tick's
\* clamp or a truncation's clamp leaves.
C1_Witness ==
  /\ mounted /\ isStreaming
  /\ indexRef = Len(fullText) /\ indexRef > 0 /\ indexRef < MaxLen
  /\ displayBuffer = fullText

\* C2: in every reachable state the display buffer is the prefix T[0:c] of
\* the current target text.
C2_DisplayIsPrefix == displayBuffer = Slice(fullText, indexRef)

\* C3: with the target text fixed, a tick taken while c < length(T) strictly
\* increases c and the length of D and never passes length(T); and, under fair
\* ticking, a live scheduler with c < length(T) reaches c = length(T) with
\* D = T.
C3_MonotonicConvergence ==
  /\ [][(Tick /\ indexRef < Len(fullText))
          => /\ indexRef' > indexRef
             /\ indexRef' <= Len(fullText)
             /\ Len(displayBuffer') > Len(displayBuffer)
             /\ Len(displayBuffer') <= Len(fullText)]_vars
  /\ (mounted /\ indexRef < Len(fullText))
       ~> (~mounted \/ (indexRef = Len(fullText) /\ displayBuffer = fullText))

\* C3 witness: streaming is on with a speed range whose draws include 0 and the
\* cursor is strictly inside the target, so ticks are still to come.
C3_Witness ==
  /\ mounted /\ isStreaming /\ minSpeed = 0
  /\ indexRef > 0 /\ indexRef < Len(fullText)

\* C4: whenever the streaming flag is false, D = T and c = length(T).
C4_FullReveal ==
  ~isStreaming => (displayBuffer = fullText /\ indexRef = Len(fullText))

\* C4 witness: streaming is off on a non-empty target after the speed range
\* was changed (so the state is not the one at setup).
C4_Witness ==
  /\ mounted /\ ~isStreaming /\ Len(fullText) > 0
  /\ minSpeed # InitialMin
  /\ displayBuffer = fullText

\* C5: when T is replaced by a shorter text U while the cursor is c, the
\* display buffer right after the replacement is U[0:min(c, length(U))].
C5_TruncationSafety ==
  [][(SetInput /\ Len(fullText') < Len(fullText))
       => displayBuffer' = Slice(fullText', Min(indexRef, Len(fullText')))]_vars

\* C6: under fair ticking, once the target text has stopped changing (after
\* any finite sequence of replacements) the display buffer of a live scheduler
\* eventually equals the target.
C6_ConvergenceUnderEdits == <>(~mounted \/ displayBuffer = fullText)

\* C7: a live scheduler has exactly one active timer.
C7_OneTimer == mounted => Cardinality(timers) = 1

\* C7 witness: the live scheduler's timer is one started by a re-arm (its
\* callback closed over speeds other than the initial ones).
C7_Witness ==
  /\ mounted
  /\ \E t \in timers : t.minSpeed # InitialMin /\ t.maxSpeed # InitialMax

\* C8: once the session has ended no timer is active and the cursor and the
\* display buffer never change again; and every active timer is the one the
\* last re-arm started (a torn-down timer's callback, which closed over the
\* old speeds, is never among the active ones).
C8_NoTickAfterCancel ==
  [][/\ ~mounted => (indexRef' = indexRef /\ displayBuffer' = displayBuffer)
     /\ ~mounted' => timers' = {}
     /\ \A t \in timers' : t.minSpeed = minSpeed' /\ t.maxSpeed = maxSpeed']_vars

\* C8 witness: the session ended mid-stream, after a re-arm.
C8_Witness ==
  /\ ~mounted /\ timers = {}
  /\ indexRef < Len(fullText)
  /\ indexRef > 0
  /\ minSpeed # InitialMin

\* ========================================================== repair claims

\* The positions of s where a !!! opens a span: a later !!!, not overlapping
\* it, closes it.
SpanStarts(s) ==
  {i \in 1..Len(s) :
     /\ MatchAt(s, Bang3, i)
     /\ \E j \in (i + 3)..Len(s) : MatchAt(s, Bang3, j)}

\* s with every !!!X!!! span rewritten to :spoiler[X], spans taken from the
\* left, each closed by the nearest !!! behind its opener, whatever X holds.
RECURSIVE RewriteSpans(_)
RewriteSpans(s) ==
  IF SpanStarts(s) = {} THEN s
  ELSE LET i == CHOOSE k \in SpanStarts(s) : \A m \in SpanStarts(s) : k <= m
           closers == {k \in (i + 3)..Len(s) : MatchAt(s, Bang3, k)}
           j == CHOOSE k \in closers : \A m \in closers : k <= m
       IN  SubSeq(s, 1, i - 1) \o SpoilerOpen \o SubSeq(s, i + 3, j - 1)
             \o <<"]">> \o RewriteSpans(From(s, j + 3))

\* s with the spans of each of its lines rewritten: a span never crosses a
\* line break.
RECURSIVE RewriteSpansInLines(_)
RewriteSpansInLines(s) ==
  IF \E i \in 1..Len(s) : s[i] = NL
  THEN LET i == CHOOSE k \in 1..Len(s) :
                  s[k] = NL /\ \A m \in 1..(k - 1) : s[m] # NL
       IN  RewriteSpans(SubSeq(s, 1, i - 1)) \o <<NL>>
             \o RewriteSpansInLines(From(s, i + 1))
  ELSE RewriteSpans(s)

IsPrefix(p, s) == Len(p) <= Len(s) /\ SubSeq(s, 1, Len(p)) = p

\* C9 as claimed: repair(text, false) is the text with every !!!X!!! span
\* rewritten to :spoiler[X], whatever X holds, and nothing else changed; and
\* repair(text, true) starts from the same rewritten text.
C9_EverySpanRewritten ==
  returned =>
    /\ ~enabled => result = RewriteSpans(text)
    /\ enabled => IsPrefix(TrimEnd(RewriteSpans(text)), result)

\* C9 as amended: repair(text, false) is the text with every !!!X!!! span
\* whose X holds no line break rewritten to :spoiler[X] (spans taken from the
\* left, each closed by the nearest !!!) and nothing else changed; and
\* repair(text, true) starts from the same rewritten text: its result is that
\* text, less its trailing whitespace at most, followed by a closer or nothing.
C9_DirectiveSubstitution ==
  returned =>
    /\ ~enabled => result = RewriteSpansInLines(text)
    /\ enabled => IsPrefix(TrimEnd(RewriteSpansInLines(text)), result)

\* C9 witness: repair is disabled, a span was rewritten and the unclosed fence
\* in the same text was left alone.
C9_Witness ==
  /\ returned /\ ~enabled
  /\ SpanStarts(text) # {}
  /\ result # text
  /\ CountMatches(text, Fence) % 2 = 1
  /\ CountMatches(result, Fence) % 2 = 1

\* C10: repair(text, true) is the directive-normalized text unchanged or with
\* exactly one closer appended (newline and fence, $$, one backtick, ** after
\* trimming trailing whitespace, or a closing parenthesis); and a text with an
\* odd fence count gets the closing fence and nothing else.
C10_ExclusiveRepair ==
  (returned /\ enabled) =>
    LET stage1 == DirectiveNormalize(text)
    IN  /\ result \in {stage1,
                        stage1 \o <<NL>> \o Fence,
                        stage1 \o MathMarker,
                        stage1 \o <<Backtick>>,
                        TrimEnd(stage1) \o BoldMarker,
                        stage1 \o <<")">>}
        /\ CountMatches(text, Fence) % 2 = 1
             => result = stage1 \o <<NL>> \o Fence

\* C10 witness: the text has an odd fence count, an odd backtick count on its
\* last line and an unclosed bold opener, and only the fence was closed.
C10_Witness ==
  /\ returned /\ enabled
  /\ CountMatches(text, Fence) % 2 = 1
  /\ CountChar(LastLine(text), Backtick) % 2 = 1
  /\ BoldTest(text)
  /\ result = text \o <<NL>> \o Fence

\* The backticks of every line of s are paired.
EveryLinePaired(s) ==
  \A i \in 0..Len(s) :
    (i = 0 \/ s[i] = NL)
      => LET rest == From(s, i + 1)
             stop == IF \E k \in 1..Len(rest) : rest[k] = NL
                     THEN (CHOOSE k \in 1..Len(rest) :
                             rest[k] = NL /\ \A m \in 1..(k - 1) : rest[m] # NL)
                     ELSE Len(rest) + 1
         IN  CountChar(SubSeq(rest, 1, stop - 1), Backtick) % 2 = 0

\* Every construct of s is balanced: bold markers come in pairs of exactly two
\* stars around some content, every line's backticks are paired, every link
\* destination is closed, the fence and $$ counts are even, and there is no
\* !!! delimiter for directive normalization to rewrite.
Balanced(s) ==
  /\ CountMatches(s, Bang3) = 0
  /\ CountMatches(s, Fence) % 2 = 0
  /\ CountMatches(s, MathMarker) % 2 = 0
  /\ EveryLinePaired(s)
  /\ CountMatches(s, BoldMarker) % 2 = 0
  /\ CountChar(s, "*") = 2 * CountMatches(s, BoldMarker)
  /\ \A i \in 1..Len(s) : ~MatchAt(s, <<"*", "*", "*">>, i)
  /\ \A j \in 1..Len(s) :
       MatchAt(s, <<"]", "(">>, j) => \E k \in (j + 2)..Len(s) : s[k] = ")"

\* C11: repair applied with enabled = true to a text whose constructs are all
\* balanced (closed bold pairs, closed inline code spans, closed links, even
\* fence and $$ counts) returns the text unchanged.
C11_NoOpOnBalanced ==
  (returned /\ enabled /\ Balanced(text)) => result = text

\* C12: for every text, the result of repair(text, true) holds an even number
\* of triple-backtick fence markers, whichever stage fired.
C12_NoUnclosedFence ==
  (returned /\ enabled) => CountMatches(result, Fence) % 2 = 0

\* The segment of s after its last line break (all of s when it has none).
LastSegment(s) ==
  LET breaks == {i \in 1..Len(s) : s[i] = NL}
  IN  IF breaks = {} THEN s
      ELSE From(s, (CHOOSE i \in breaks : \A k \in breaks : k <= i) + 1)

\* No stage before the bold stage applies to s: the fence and $$ counts are
\* even and so is the backtick count of the last line.
NoStageBeforeBold(s) ==
  /\ CountMatches(s, Fence) % 2 = 0
  /\ CountMatches(s, MathMarker) % 2 = 0
  /\ CountChar(LastSegment(s), Backtick) % 2 = 0

\* s ends with a ** opener: its last ** has no * after it.
EndsWithBoldOpener(s) ==
  LET marks == {i \in 1..Len(s) : MatchAt(s, BoldMarker, i)}
  IN  /\ marks # {}
      /\ LET last == CHOOSE i \in marks : \A k \in marks : k <= i
         IN  \A k \in (last + 2)..Len(s) : s[k] # "*"

\* s with all its trailing blanks and line breaks removed.
WithoutTrailingWhitespace(s) ==
  LET solid == {i \in 1..Len(s) : s[i] \notin {" ", NL}}
  IN  IF solid = {} THEN <<>>
      ELSE SubSeq(s, 1, CHOOSE i \in solid : \A k \in solid : k <= i)

\* C13: when no earlier stage applies and the text ends with a ** opener
\* followed by no further * (and, optionally, trailing whitespace),
\* repair(text, true) is the text with all its trailing whitespace removed
\* followed by **. The text is the one the stage receives, the
\* directive-normalized text: the text itself when stage 1 rewrote nothing.
C13_BoldClosingTrims ==
  (returned /\ enabled /\ NoStageBeforeBold(text) /\ EndsWithBoldOpener(text))
    => /\ result
            = WithoutTrailingWhitespace(DirectiveNormalize(text)) \o BoldMarker
       /\ DirectiveNormalize(text) = text
            => result = WithoutTrailingWhitespace(text) \o BoldMarker

\* C13 witness: an unclosed bold opener followed by a blank and a line break,
\* both removed before the closer.
C13_Witness ==
  /\ returned /\ enabled
  /\ NoStageBeforeBold(text) /\ EndsWithBoldOpener(text)
  /\ Len(text) >= 2 /\ text[Len(text)] = NL /\ text[Len(text) - 1] = " "
  /\ Len(result) = Len(text)
  /\ SubSeq(result, Len(result) - 1, Len(result)) = BoldMarker

\* s ends with a link or image whose bracket text is closed and whose
\* destination is opened and not closed: some ]( has no ) after it, and the
\* nearest bracket before it is a [.
EndsWithOpenLink(s) ==
  \E j \in 1..Len(s) :
    /\ MatchAt(s, <<"]", "(">>, j)
    /\ \A k \in (j + 2)..Len(s) : s[k] # ")"
    /\ LET prior == {i \in 1..(j - 1) : s[i] \in {"[", "]"}}
       IN  /\ prior # {}
           /\ s[CHOOSE i \in prior : \A k \in prior : k <= i] = "["

\* C14: when no earlier stage (fence, $$, inline backtick, bold) applies and
\* the text ends with a link or image whose bracket text is closed and whose
\* destination is opened but not closed, repair(text, true) is the text
\* followed by exactly one closing parenthesis; when an unclosed bold opener
\* is also present the bold stage wins and no parenthesis is appended. The
\* text is the one the stage receives, the directive-normalized text: the
\* text itself when stage 1 rewrote nothing.
C14_LinkClosing ==
  LET stage1 == DirectiveNormalize(text)
  IN  (returned /\ enabled /\ NoStageBeforeBold(stage1)
         /\ EndsWithOpenLink(stage1))
        => IF EndsWithBoldOpener(stage1)
           THEN /\ result = WithoutTrailingWhitespace(stage1) \o BoldMarker
                /\ result # stage1 \o <<")">>
           ELSE /\ result = stage1 \o <<")">>
                /\ stage1 = text => result = text \o <<")">>

\* C14 witness: an open link with an empty bracket text after a single star,
\* which opens no bold: the destination was closed.
C14_Witness ==
  /\ returned /\ enabled
  /\ NoStageBeforeBold(text) /\ EndsWithOpenLink(text)
  /\ ~EndsWithBoldOpener(text)
  /\ CountChar(text, "*") = 1
  /\ \E j \in 1..Len(text) : MatchAt(text, <<"[", "]", "(">>, j)
  /\ result = text \o <<")">>

\* C17: when the fence and $$ counts are even, repair(text, true) appends
\* exactly one backtick if and only if the number of backticks in the last
\* newline-separated segment of the text is odd; an odd backtick count on an
\* earlier line with an even count on the last line triggers no backtick
\* repair.
C17_InlineCodeLastLineOnly ==
  LET stage1 == DirectiveNormalize(text)
  IN  (returned /\ enabled
         /\ CountMatches(text, Fence) % 2 = 0
         /\ CountMatches(text, MathMarker) % 2 = 0)
        => /\ result = stage1 \o <<Backtick>>
                <=> CountChar(LastSegment(text), Backtick) % 2 = 1
           /\ CountChar(LastSegment(text), Backtick) % 2 = 0
                => CountChar(result, Backtick) = CountChar(text, Backtick)

\* C17 witness: one backtick on the first line and none on the last: the
\* whole text has an odd backtick count and nothing was appended.
C17_Witness ==
  /\ returned /\ enabled
  /\ CountMatches(text, Fence) % 2 = 0
  /\ CountMatches(text, MathMarker) % 2 = 0
  /\ CountChar(text, Backtick) = 1
  /\ CountChar(LastSegment(text), Backtick) = 0
  /\ Len(LastSegment(text)) > 0
  /\ result = text

\* ================================================ scheduler claims, more

\* The hook states one firing of an active timer's callback can leave.
TickResults ==
  {TickCallback(Hook, speed, mounted) :
     speed \in UNION {SpeedDraws(t.minSpeed, t.maxSpeed) : t \in timers}}

\* C15: a tick taken with c < length(T) and 1 <= min <= max sets c to
\* min(c + k, length(T)) for some k in min..max, any k of that range being a
\* possible draw on each tick, and publishes D = T[0:c] against the latest T;
\* with min = 0 the step is still at least 1; a tick taken with
\* c >= length(T) leaves c and D unchanged.
C15_TickStep ==
  /\ [][Tick =>
          IF indexRef < Len(fullText)
          THEN /\ (1 <= minSpeed /\ minSpeed <= maxSpeed)
                    => \E k \in minSpeed..maxSpeed :
                         indexRef' = Min(indexRef + k, Len(fullText))
               /\ minSpeed = 0 => indexRef' >= Min(indexRef + 1, Len(fullText))
               /\ displayBuffer' = Slice(fullText, indexRef')
          ELSE indexRef' = indexRef /\ displayBuffer' = displayBuffer]_vars
  /\ [](IF indexRef < Len(fullText)
        THEN /\ \A h \in TickResults :
                  /\ h.indexRef > indexRef
                  /\ h.displayBuffer = Slice(fullText, h.indexRef)
             /\ (mounted /\ 1 <= minSpeed /\ minSpeed <= maxSpeed)
                  => {h.indexRef : h \in TickResults}
                       = {Min(indexRef + k, Len(fullText)) :
                            k \in minSpeed..maxSpeed}
        ELSE \A h \in TickResults : h = Hook)

\* C15 witness: with min = 0 a tick has moved the cursor into the middle of
\* the target and published that prefix.
C15_Witness ==
  /\ mounted /\ isStreaming
  /\ \E t \in timers : t.minSpeed = 0
  /\ indexRef = 1 /\ Len(fullText) > 1
  /\ displayBuffer = Slice(fullText, 1)

\* C16: changing min or max restarts the tick timer (the old timer is
\* cancelled, one new timer runs with the new speeds) and leaves the cursor c,
\* the display buffer D and the target text T unchanged; the next tick
\* resumes from the same c.
C16_RearmFrame ==
  [][SetSpeedConfig =>
       /\ indexRef' = indexRef
       /\ displayBuffer' = displayBuffer
       /\ fullText' = fullText /\ fullTextRef' = fullTextRef
       /\ timers' # timers
       /\ \A t \in timers' : t.minSpeed = minSpeed' /\ t.maxSpeed = maxSpeed'
       /\ Cardinality(timers') = 1
       /\ \A h \in TickResults' :
            IF indexRef < Len(fullText)
            THEN /\ h.indexRef \in (indexRef + 1)..Len(fullText)
                 /\ h.displayBuffer = Slice(fullText, h.indexRef)
            ELSE h.indexRef = indexRef /\ h.displayBuffer = displayBuffer]_vars

\* C16 witness: mid-stream, with both speeds changed from their initial
\* values: the timer was re-armed and the cursor is still inside the target.
C16_Witness ==
  /\ mounted /\ isStreaming
  /\ minSpeed = SliderMinHi /\ maxSpeed = SliderMaxHi
  /\ \E t \in timers : t.minSpeed = SliderMinHi /\ t.maxSpeed = SliderMaxHi
  /\ indexRef = 2 /\ Len(fullText) > 2
  /\ displayBuffer = Slice(fullText, 2)

\* C18: in every reachable state the length of the display buffer equals the
\* cursor, for any sequence of ticks, target replacements, streaming toggles
\* and speed changes, even where D is not a prefix of the current T.
C18_BufferLengthIsCursor == Len(displayBuffer) = indexRef

\* C18 witness: after a replacement the buffer still shows the old text: it
\* is not the prefix of the target, and its length is the cursor.
C18_Witness ==
  /\ mounted /\ isStreaming
  /\ indexRef > 0 /\ indexRef < Len(fullText)
  /\ displayBuffer # Slice(fullText, indexRef)
  /\ Len(displayBuffer) = indexRef

\* C19: re-enabling streaming (flag false -> true) changes neither c nor D and
\* the cursor stays at length(T); from c = length(T), while T does not grow,
\* the cursor stays at length(T) and D keeps that length (nothing is streamed
\* again from position 0) and every tick is a no-op.
C19_ReenableKeepsCursor ==
  /\ [][(SetIsStreaming /\ ~isStreaming) =>
          /\ indexRef' = indexRef
          /\ displayBuffer' = displayBuffer
          /\ indexRef' = Len(fullText')]_vars
  /\ [][(indexRef = Len(fullText) /\ Len(fullText') <= Len(fullText)) =>
          /\ indexRef' = Len(fullText')
          /\ Len(displayBuffer') = Len(fullText')]_vars
  /\ [](indexRef = Len(fullText) => \A h \in TickResults : h = Hook)

\* C19 witness: streaming is on, the speeds were changed, and the cursor is at
\* the end of a target of the longest length with the whole target shown.
C19_Witness ==
  /\ mounted /\ isStreaming
  /\ minSpeed # InitialMin
  /\ Len(fullText) = MaxLen
  /\ indexRef = Len(fullText)
  /\ displayBuffer = fullText

====
